---- MODULE Spec2Model ----
(***************************************************************************)
(* Generation pipeline of BringSuite: the Request Scheduler                *)
(* (services/queue.ts), the Timeout Guard (utils/timeout.ts) and the       *)
(* Generation Orchestrator (services/gemini.ts).                           *)
(*                                                                         *)
(* JavaScript is single-threaded: every action below is one turn of the    *)
(* event loop, i.e. the synchronous code from one resumption (a call from  *)
(* the UI, a timer firing, the service answering) up to the next await,    *)
(* together with the promise reactions (microtasks) it triggers.           *)
(***************************************************************************)
EXTENDS Integers, Sequences, FiniteSets, TLC

\* ---------------------------------------------------------------- bounds
\* tasks enqueued with an arbitrary operation (QueueSpec)
MaxTasks == 3
\* generate / refine requests enqueued by the application (Spec)
MaxRequests == 2
\* framework conversions requested by the application (Spec)
MaxConverts == 1
\* operations called directly, without the scheduler (OrchSpec)
MaxCalls == 1
\* clock ticks the editor is watched for (HistorySpec)
HistoryTicks == 5
\* clock ticks the autosave is watched for (AutosaveSpec)
AutosaveTicks == 82
SaveTicks == 2
\* clock ticks the editor is watched for with refinements (RefineSpec)
RefineTicks == 5
\* clock ticks the editor with a long history is watched for
LongTicks == 3
\* steps undone in a row in the editor with a long history
MaxUndo == 2
\* refinements requested (RefineSpec)
MaxRefines == 1

\* ------------------------------------------------------ program constants
maxRetries == 3
NormalDelay == 1500
GENERATION_TIMEOUT == 120000
REFINEMENT_TIMEOUT == 90000
CONVERSION_TIMEOUT == 120000
EDIT_WINDOW == 1000
HISTORY_CAP == 30
SAVE_DEBOUNCE == 2000
MAX_WAIT == 30000
SAVED_DELAY == 500

GEMINI_MODEL == "gemini-3-pro-preview"
FALLBACK_MODEL == "gemini-2.5-flash"

\* -------------------------------------------------------------- file maps
\* Record<string, { content: string }>: a function from paths to contents.
\* A text (a file's content, a response of the service, a document) is the
\* sequence of its pieces: the characters and markers the code looks for
\* ("{", "}", a code fence, "</head>", ...) are pieces of their own.
EmptyMap == [p \in {} |-> <<>>]

FilesA == ("index.html" :> <<"<h1>a</h1>">>) @@ ("styles.css" :> <<"h1", "{", "}">>)
FilesB == ("index.html" :> <<"<h1>b</h1>">>) @@ ("script.js" :> <<"go()">>)

\* the file maps a caller hands to refine / convert
WorkspaceMaps == {FilesA}
\* the file maps the service answers with
ServiceMaps == {FilesB}

Merge_Replace(currentFiles, updates) == updates

\* { ...currentFiles, ...updates }
Merge(currentFiles, updates) ==
    [k \in (DOMAIN currentFiles) \cup (DOMAIN updates) |->
        IF k \in DOMAIN updates THEN updates[k] ELSE currentFiles[k]]

\* ------------------------------------------------------ promises, errors
NoError == [name |-> "", message |-> "", ms |-> 0]
Pending == [st |-> "pending", val |-> EmptyMap, err |-> NoError]
Fulfilled(v) == [st |-> "fulfilled", val |-> v, err |-> NoError]
Rejected(e) == [st |-> "rejected", val |-> EmptyMap, err |-> e]

\* new Error("AI response was not valid JSON. Please try again.")
ParseError ==
    [name |-> "Error", message |-> "AI response was not valid JSON. Please try again.", ms |-> 0]
\* whatever ai.models.generateContent rejects with
ServiceError == [name |-> "ApiError", message |-> "service unavailable", ms |-> 0]
\* new Error("Generation failed") / new Error("Refinement failed") after the loop
LoopExitError(kind) ==
    [name |-> "Error",
     message |-> IF kind = "refine" THEN "Refinement failed" ELSE "Generation failed",
     ms |-> 0]

\* errorMessage || "Operation timed out after ${timeoutMs}ms"
\* (an absent and an empty message are both falsy); ms holds the
\* interpolated number of the default message.
NoMessage == "<undefined>"
TimeoutMessage(errorMessage, timeoutMs) ==
    IF errorMessage \in {NoMessage, ""}
    THEN [text |-> "Operation timed out after ${timeoutMs}ms", ms |-> timeoutMs]
    ELSE [text |-> errorMessage, ms |-> 0]

\* new TimeoutError(message): this.name = 'TimeoutError'
TimeoutError(errorMessage, timeoutMs) ==
    LET m == TimeoutMessage(errorMessage, timeoutMs)
    IN  [name |-> "TimeoutError", message |-> m.text, ms |-> m.ms]

isTimeoutError(e) == e.name = "TimeoutError"

\* ---------------------------------------------------------- Timeout Guard
\* State of one call withTimeout(promise, timeoutMs, errorMessage):
\*   promise : the wrapped operation's own settlement
\*   timer   : "armed" after setTimeout, "fired" once its callback ran,
\*             "cleared" after clearTimeout
\*   out     : the settlement of the promise withTimeout returned
withTimeout(errorMessage, timeoutMs) ==
    [errorMessage |-> errorMessage, timeoutMs |-> timeoutMs,
     promise |-> Pending, timer |-> "armed", out |-> Pending]

NoGuard ==
    [errorMessage |-> NoMessage, timeoutMs |-> 0,
     promise |-> Pending, timer |-> "unset", out |-> Pending]

Race_LastWins(settled, next) == next

\* Promise.race([promise, timeoutPromise]): the first settlement stands,
\* resolving or rejecting an already settled promise does nothing.
Race(settled, next) == IF settled.st = "pending" THEN next ELSE settled

Rethrow_AsTimeout(g, res) ==
    IF res.st = "rejected"
    THEN Rejected(TimeoutError(g.errorMessage, g.timeoutMs))
    ELSE res

\* try { result = await race; clearTimeout; return result }
\* catch (error) { clearTimeout; throw error }
Rethrow(g, res) == res

\* the wrapped promise settles with res
WTSettle(g, res) ==
    IF g.out.st = "pending"
    THEN [g EXCEPT !.promise = res, !.out = Race(g.out, Rethrow(g, res)),
                   !.timer = "cleared"]
    ELSE [g EXCEPT !.promise = res, !.out = Race(g.out, Rethrow(g, res))]

\* the setTimeout callback runs: reject(new TimeoutError(...))
WTTimerFires(g) ==
    [g EXCEPT !.timer = "fired",
              !.out = Race(g.out,
                  Rethrow(g, Rejected(TimeoutError(g.errorMessage, g.timeoutMs))))]

\* --------------------------------------------------- Generation Orchestrator
\* What the external service does with one generateContent call.
\*   reject     : the call itself rejects
\*   empty      : response.text is empty, replaced by "{}"
\*   json       : the text is a JSON file map
\*   wrapped    : the text is JSON { "files": { ...file map } }
\*   html       : a bare markup document without braces
\*   garbage    : anything else that JSON.parse refuses
HtmlText == <<"<!DOCTYPE html>", "<p>hi</p>">>

Response(k, fm) == [k |-> k, files |-> fm, text |-> <<>>]

\* a response whose text is given piece by piece
TextResponse(t) == [k |-> "text", files |-> EmptyMap, text |-> t]

Responses ==
    {Response("json", fm) : fm \in ServiceMaps}
        \cup {Response("garbage", EmptyMap), Response("reject", EmptyMap)}

Ok(v) == [ok |-> TRUE, val |-> v, err |-> NoError]
Fail(e) == [ok |-> FALSE, val |-> EmptyMap, err |-> e]

Fence == "<fence>"
Whitespace == {" ", "<newline>"}

\* the order in which a JSON text lists the paths
PathOrder == <<"index.html", "styles.css", "script.js", "c++.css">>

RECURSIVE jsonEntries(_, _, _)
\* "path":{"content":"..."} for the paths of fm from the i-th of PathOrder
\* on, separated by commas
jsonEntries(fm, i, first) ==
    IF i > Len(PathOrder) THEN <<>>
    ELSE IF PathOrder[i] \in DOMAIN fm
    THEN (IF first THEN <<>> ELSE <<",">>)
            \o <<"\"", PathOrder[i], "\"", ":", "{", "\"content\"", ":", "\"">>
            \o fm[PathOrder[i]] \o <<"\"", "}">>
            \o jsonEntries(fm, i + 1, FALSE)
    ELSE jsonEntries(fm, i + 1, first)

\* a JSON value the service may send: a file map, bare or under "files"
Json(wrapped, fm) == [wrapped |-> wrapped, map |-> fm]

\* the JSON text of such a value
jsonText(j) ==
    LET inner == <<"{">> \o jsonEntries(j.map, 1, TRUE) \o <<"}">>
    IN  IF j.wrapped THEN <<"{", "\"files\"", ":">> \o inner \o <<"}">> ELSE inner

JsonMaps == {EmptyMap, FilesA, FilesB}
JsonValues == {Json(w, fm) : w \in BOOLEAN, fm \in JsonMaps}

\* JSON.parse(text): the object whose JSON text this is, or a SyntaxError
JSONparse(t) ==
    IF \E j \in JsonValues : jsonText(j) = t
    THEN LET j == CHOOSE j \in JsonValues : jsonText(j) = t
         IN  [ok |-> TRUE, parsed |-> IF j.wrapped THEN [files |-> j.map] ELSE j.map]
    ELSE [ok |-> FALSE, parsed |-> EmptyMap]

RECURSIVE dropSpaces(_)
\* \s* at the head of a text
dropSpaces(t) ==
    IF t # <<>> /\ Head(t) \in Whitespace THEN dropSpaces(Tail(t)) ELSE t

\* text.replace(/^<fence>(json)?\s*/g, '')
stripOpeningFence(t) ==
    IF t # <<>> /\ Head(t) = Fence
    THEN LET r == Tail(t)
         IN  dropSpaces(IF r # <<>> /\ Head(r) = "json" THEN Tail(r) ELSE r)
    ELSE t

\* text.replace(/<fence>\s*$/g, ''): a fence followed by nothing but white space
stripClosingFence(t) ==
    LET ends == {i \in 1..Len(t) :
                    t[i] = Fence /\ \A j \in (i + 1)..Len(t) : t[j] \in Whitespace}
    IN  IF ends = {} THEN t
        ELSE SubSeq(t, 1, (CHOOSE i \in ends : \A j \in ends : i <= j) - 1)

\* text.indexOf(c), text.lastIndexOf(c): a position from 1, 0 standing for -1
indexOf(t, c) ==
    IF \E i \in 1..Len(t) : t[i] = c
    THEN CHOOSE i \in 1..Len(t) : t[i] = c /\ \A j \in 1..(i - 1) : t[j] # c
    ELSE 0

lastIndexOf(t, c) ==
    IF \E i \in 1..Len(t) : t[i] = c
    THEN CHOOSE i \in 1..Len(t) : t[i] = c /\ \A j \in (i + 1)..Len(t) : t[j] # c
    ELSE 0

sliceBraces_Never(t) == t

\* if (firstOpen !== -1 && lastClose !== -1 && lastClose > firstOpen)
\*     text = text.substring(firstOpen, lastClose + 1)
sliceBraces(t) ==
    LET firstOpen == indexOf(t, "{")
        lastClose == lastIndexOf(t, "}")
    IN  IF firstOpen # 0 /\ lastClose # 0 /\ lastClose > firstOpen
        THEN SubSeq(t, firstOpen, lastClose)
        ELSE t

\* the cleaned text handed to JSON.parse
sanitize(t) == sliceBraces(stripClosingFence(stripOpeningFence(t)))

MarkupStarts == {"<!DOCTYPE html>", "<html>"}

\* text.trim().startsWith('<!DOCTYPE') || text.trim().startsWith('<html')
looksLikeHtml(t) == dropSpaces(t) # <<>> /\ Head(dropSpaces(t)) \in MarkupStarts

\* the text of a response of each kind; response.text || "{}"
responseText(resp) ==
    LET raw == CASE resp.k = "json"    -> jsonText(Json(FALSE, resp.files))
                 [] resp.k = "wrapped" -> jsonText(Json(TRUE, resp.files))
                 [] resp.k = "html"    -> HtmlText
                 [] resp.k = "empty"   -> <<>>
                 [] resp.k = "text"    -> resp.text
                 [] OTHER              -> <<"I cannot help with that.">>
    IN  IF raw = <<>> THEN <<"{", "}">> ELSE raw

\* one attempt: the call, the clean-up of its text, JSON.parse, the
\* unwrapping of "files", the fallback for a bare markup document
executeGeneration(resp) ==
    IF resp.k = "reject" THEN Fail(ServiceError)
    ELSE LET t == sanitize(responseText(resp))
             p == JSONparse(t)
         IN  IF p.ok
             THEN Ok(IF "files" \in DOMAIN p.parsed THEN p.parsed["files"] ELSE p.parsed)
             ELSE IF looksLikeHtml(t) THEN Ok("index.html" :> t)
             ELSE Fail(ParseError)

AttemptKind(r) ==
    IF r.ok THEN "ok" ELSE IF r.err = ParseError THEN "parse" ELSE "service"

useModel_AlwaysPrimary(kind, attempt) == GEMINI_MODEL

\* (attempt === 0) ? GEMINI_MODEL : FALLBACK_MODEL; convert always uses the
\* primary model
useModel(kind, attempt) ==
    IF kind = "convert" \/ attempt = 0 THEN GEMINI_MODEL ELSE FALLBACK_MODEL

TimeoutOf(kind) ==
    CASE kind = "generate" -> GENERATION_TIMEOUT
      [] kind = "refine"   -> REFINEMENT_TIMEOUT
      [] OTHER             -> CONVERSION_TIMEOUT

MessageOf(kind) ==
    CASE kind = "generate" -> "AI generation timed out. Please try again."
      [] kind = "refine"   -> "AI refinement timed out. Please try again."
      [] OTHER             -> "Framework conversion timed out. Please try again."

\* One operation: generate, refine or convert behind their Timeout Guard, or
\* "fn", some other asynchronous function (with or without a guard).
\*   phase   : "idle" not started, "call" a service call is in flight,
\*             "backoff" waiting between attempts, "run" an "fn" is running,
\*             "done" the inner function returned or threw
\*   calls   : the service calls made so far: the model asked, how the
\*             attempt ended ("pending", "ok", "parse", "service") and the
\*             file map executeGeneration returned
\*   wt      : the guard; wt.promise is the inner function's own promise
NoOp ==
    [kind |-> "none", cf |-> EmptyMap, phase |-> "idle", attempt |-> 0,
     calls |-> <<>>, wt |-> NoGuard]

NewCall(kind, attempt) ==
    [model |-> useModel(kind, attempt), res |-> "pending", val |-> EmptyMap]

\* bringToLife / refineCreation / convertToFramework: the inner function runs
\* up to its first service call, then withTimeout arms its timer.
StartOp(kind, cf) ==
    [kind |-> kind, cf |-> cf, phase |-> "call", attempt |-> 0,
     calls |-> <<NewCall(kind, 0)>>,
     wt |-> withTimeout(MessageOf(kind), TimeoutOf(kind))]

\* the value the inner function returns on a successful attempt
ReturnValue(op, v) == IF op.kind = "refine" THEN Merge(op.cf, v) ELSE v

\* catch: if (attempt < maxRetries - 1) await backoff; else throw error
MayRetry(op) == op.kind # "convert" /\ op.attempt < maxRetries - 1

\* the service answers the call in flight
OpRespond(op, resp) ==
    LET r == executeGeneration(resp)
        logged == [op EXCEPT !.calls[Len(op.calls)].res = AttemptKind(r),
                             !.calls[Len(op.calls)].val = r.val]
    IN  IF r.ok
        THEN [logged EXCEPT !.phase = "done",
                            !.wt = WTSettle(op.wt, Fulfilled(ReturnValue(op, r.val)))]
        ELSE IF MayRetry(op)
        THEN [logged EXCEPT !.phase = "backoff"]
        ELSE [logged EXCEPT !.phase = "done",
                            !.wt = WTSettle(op.wt, Rejected(r.err))]

\* the backoff timer fires: attempt++, loop test, next call
OpBackoffElapsed(op) ==
    IF op.attempt + 1 < maxRetries
    THEN [op EXCEPT !.attempt = @ + 1, !.phase = "call",
                    !.calls = Append(@, NewCall(op.kind, op.attempt + 1))]
    ELSE [op EXCEPT !.attempt = @ + 1, !.phase = "done",
                    !.wt = WTSettle(op.wt, Rejected(LoopExitError(op.kind)))]

\* the guard's deadline expires
OpTimerFires(op) == [op EXCEPT !.wt = WTTimerFires(op.wt)]

\* some asynchronous function other than the orchestrator's starts, bare ...
StartFn == [NoOp EXCEPT !.kind = "fn", !.phase = "run"]

\* ... or as withTimeout(fn(), timeoutMs, errorMessage)
StartGuardedFn(errorMessage, timeoutMs) ==
    [StartFn EXCEPT !.wt = withTimeout(errorMessage, timeoutMs)]

\* and settles
OpFnSettles(op, res) ==
    IF op.wt.timer = "unset"
    THEN [op EXCEPT !.phase = "done", !.wt.promise = res]
    ELSE [op EXCEPT !.phase = "done", !.wt = WTSettle(op.wt, res)]

\* the promise the caller of the operation holds
Returned(op) == IF op.wt.timer = "unset" THEN op.wt.promise ELSE op.wt.out

\* what the opaque functions settle with
FnResults == {Fulfilled(FilesB), Rejected(ServiceError), Rejected(ParseError)}

\* ------------------------------------------------------------------ Bundler
\* "<h1>Error: index.html not found</h1>"
ErrorDocument == <<"<h1>Error: index.html not found</h1>">>

\* name.endsWith(ext), for the paths of the workspaces drawn
endsWith(name, ext) ==
    CASE ext = ".css" -> name \in {"styles.css", "c++.css"}
      [] ext = ".js"  -> name \in {"script.js"}
      [] OTHER        -> FALSE

\* new RegExp(...${name.replace(".", "\\.")}...): the name is spliced into the
\* pattern with only its first dot escaped; a name that leaves no valid
\* pattern ("c++": nothing to repeat) makes the constructor throw a
\* SyntaxError
regExpThrows(name) == name \in {"c++.css"}

\* the pieces of a document that <link[^>]+href=["'](\./)?name["'][^>]*>
\* matches
LinkStyles == "<link rel=\"stylesheet\" href=\"styles.css\">"
LinkDotStyles == "<link rel=\"stylesheet\" href=\"./styles.css\">"
linkRegex(name) == IF name = "styles.css" THEN {LinkStyles, LinkDotStyles} ELSE {}

\* and those <script[^>]+src=["'](\./)?name["'][^>]*>\s*<\/script> matches
ScriptTag == "<script src=\"script.js\"></script>"
scriptRegex(name) == IF name = "script.js" THEN {ScriptTag} ELSE {}

\* <style>\n/* name */\ncontent\n</style>
styleBlock(name, content) ==
    <<"<style>", "/*", name, "*/">> \o content \o <<"</style>">>

\* <script>\n// name\ncontent\n</script>
scriptBlock(name, content) ==
    <<"<script>", "//", name>> \o content \o <<"</script>">>

RECURSIVE expand(_, _)
\* a replacement string as String.prototype.replace reads it: "$&" stands
\* for the matched text
expand(replacement, matched) ==
    IF replacement = <<>> THEN <<>>
    ELSE (IF Head(replacement) = "$&" THEN matched ELSE <<Head(replacement)>>)
            \o expand(Tail(replacement), matched)

RECURSIVE replaceAll(_, _, _)
\* html.replace(regex, replacement) with the g flag: every match
replaceAll(html, matches, replacement) ==
    IF html = <<>> THEN <<>>
    ELSE (IF Head(html) \in matches
          THEN expand(replacement, <<Head(html)>>)
          ELSE <<Head(html)>>)
            \o replaceAll(Tail(html), matches, replacement)

\* html.replace(marker, replacement) with a string pattern: the first
\* occurrence, and nothing when there is none
replaceFirst(html, marker, replacement) ==
    LET i == indexOf(html, marker)
    IN  IF i = 0 THEN html
        ELSE SubSeq(html, 1, i - 1)
                \o expand(replacement, <<marker>>)
                \o SubSeq(html, i + 1, Len(html))

\* the body of the first forEach for one entry
injectCss(html, name, content) ==
    IF ~endsWith(name, ".css") THEN html
    ELSE IF \E i \in 1..Len(html) : html[i] \in linkRegex(name)
    THEN replaceAll(html, linkRegex(name), styleBlock(name, content))
    ELSE replaceFirst(html, "</head>", styleBlock(name, content) \o <<"</head>">>)

\* the body of the second forEach for one entry
injectJs(html, name, content) ==
    IF ~endsWith(name, ".js") THEN html
    ELSE IF \E i \in 1..Len(html) : html[i] \in scriptRegex(name)
    THEN replaceAll(html, scriptRegex(name), scriptBlock(name, content))
    ELSE replaceFirst(html, "</body>", scriptBlock(name, content) \o <<"</body>">>)

RECURSIVE forEachCss(_, _, _)
\* Object.entries(files).forEach(...), from the i-th path on
forEachCss(files, html, i) ==
    IF i > Len(PathOrder) THEN html
    ELSE IF PathOrder[i] \in DOMAIN files
    THEN forEachCss(files, injectCss(html, PathOrder[i], files[PathOrder[i]]), i + 1)
    ELSE forEachCss(files, html, i + 1)

RECURSIVE forEachJs(_, _, _)
forEachJs(files, html, i) ==
    IF i > Len(PathOrder) THEN html
    ELSE IF PathOrder[i] \in DOMAIN files
    THEN forEachJs(files, injectJs(html, PathOrder[i], files[PathOrder[i]]), i + 1)
    ELSE forEachJs(files, html, i + 1)

Returns(html) == [threw |-> FALSE, html |-> html]
Throws == [threw |-> TRUE, html |-> <<>>]

\* bundleFiles(files): the document it returns, or the SyntaxError
bundleFiles(files) ==
    IF "index.html" \notin DOMAIN files THEN Returns(ErrorDocument)
    ELSE IF \E name \in DOMAIN files :
               (endsWith(name, ".css") \/ endsWith(name, ".js")) /\ regExpThrows(name)
    THEN Throws
    ELSE Returns(forEachJs(files, forEachCss(files, files["index.html"], 1), 1))

\* ------------------------------------------- LivePreview: history, autosave
\* The clock advances by the shortest of the timers; Date.now() when the
\* component mounts is some time far above the grouping window.
Granularity == SAVED_DELAY
StartTime == 100 * EDIT_WINDOW

\* const [activeFile, setActiveFile] = useState("index.html")
ActiveFile == "index.html"

\* the autosave effect: the clean-up of the previous run, the early return,
\* saved -> unsaved, the debounce timer and the maximum-wait interval; the
\* interval callback sees the saveStatus of the render the effect ran in
autoSaveEffect(st, t) ==
    IF st.creation = 0 \/ DOMAIN st.files = {}
    THEN [st EXCEPT !.timeoutAt = 0, !.intervalAt = 0]
    ELSE [st EXCEPT !.saveStatus = IF @ = "saved" THEN "unsaved" ELSE @,
                    !.timeoutAt = t + SAVE_DEBOUNCE,
                    !.intervalAt = t + MAX_WAIT,
                    !.intervalSees = st.saveStatus]

capHistory_None(newPast) == newPast

\* if (newPast.length > 30) newPast.shift()
capHistory(newPast) == IF Len(newPast) > HISTORY_CAP THEN Tail(newPast) ELSE newPast

startsNewGroup_Always(lastEdit, t) == TRUE

\* now - lastEditTimeRef.current > 1000
startsNewGroup(lastEdit, t) == t - lastEdit > EDIT_WINDOW

\* handleFileChange(newContent), and the render it causes
handleFileChange(st, newContent, isPro, t) ==
    IF ~isPro THEN st
    ELSE LET group == startsNewGroup(st.lastEditTime, t)
             s1 == [st EXCEPT
                       !.past = IF group THEN capHistory(Append(@, st.files)) ELSE @,
                       !.future = IF group THEN <<>> ELSE @,
                       !.lastEditTime = t,
                       !.files = (ActiveFile :> newContent) @@ @,
                       !.saveStatus = "unsaved"]
         IN  autoSaveEffect(s1, t)

handleUndo_MarksUnsaved(st, t) ==
    IF Len(st.past) = 0 THEN [st EXCEPT !.saveStatus = "unsaved"]
    ELSE autoSaveEffect(
            [st EXCEPT !.future = <<st.files>> \o @,
                       !.files = st.past[Len(st.past)],
                       !.past = SubSeq(@, 1, Len(@) - 1),
                       !.saveStatus = "unsaved"], t)

\* handleUndo(), and the render it causes
handleUndo(st, t) ==
    IF Len(st.past) = 0 THEN st
    ELSE autoSaveEffect(
            [st EXCEPT !.future = <<st.files>> \o @,
                       !.files = st.past[Len(st.past)],
                       !.past = SubSeq(@, 1, Len(@) - 1),
                       !.saveStatus = "unsaved"], t)

handleRedo_NoPush(st, t) ==
    IF Len(st.future) = 0 THEN st
    ELSE autoSaveEffect(
            [st EXCEPT !.files = st.future[1],
                       !.future = Tail(@),
                       !.saveStatus = "unsaved"], t)

\* handleRedo(), and the render it causes
handleRedo(st, t) ==
    IF Len(st.future) = 0 THEN st
    ELSE autoSaveEffect(
            [st EXCEPT !.past = Append(@, st.files),
                       !.files = st.future[1],
                       !.future = Tail(@),
                       !.saveStatus = "unsaved"], t)

\* the syncing effect when the creation prop gets an id: the files of the
\* creation, an empty history, saveStatus saved; then the autosave effect
\* of the render that follows
syncCreation(st, id, creationFiles, t) ==
    autoSaveEffect(
        [st EXCEPT !.creation = id,
                   !.files = creationFiles,
                   !.past = <<>>,
                   !.future = <<>>,
                   !.saveStatus = "saved"], t)

syncRefinement_ResetsHistory(st, creationFiles, t) ==
    autoSaveEffect(
        [st EXCEPT !.files = creationFiles,
                   !.past = <<>>,
                   !.future = <<>>,
                   !.saveStatus = "saved"], t)

\* the syncing effect when isRefining goes from true to false with the id
\* of the creation unchanged: the files of the creation prop, saveStatus
\* saved, the history kept; then the autosave effect
syncRefinement(st, creationFiles, t) ==
    autoSaveEffect(
        [st EXCEPT !.files = creationFiles,
                   !.saveStatus = "saved"], t)

\* handleRefine: no refinement yet, one in flight with the files it was
\* handed, and one that ended
NotRefining ==
    [on |-> FALSE, n |-> 0, cf |-> EmptyMap, out |-> "none", val |-> EmptyMap]
Refining(r, currentFiles) ==
    [on |-> TRUE, n |-> r.n + 1, cf |-> currentFiles, out |-> "none",
     val |-> EmptyMap]
Refined(r, out, v) == [r EXCEPT !.on = FALSE, !.out = out, !.val = v]

\* a flush: setSaveStatus("saving"); onAutoSave(files); and the timer
\* setTimeout(() => setSaveStatus("saved"), 500) it leaves behind
NoFlush == [at |-> 0, files |-> EmptyMap, save |-> "none", savedWhile |-> "none"]
Flush(flushFiles, t) ==
    [at |-> t, files |-> flushFiles, save |-> "pending", savedWhile |-> "none"]

\* --------------------------------------------------------- Request Scheduler
VARIABLES
    counter,    \* queue.ts: let counter = 0
    running,    \* queue.ts: let running = false
    queue,      \* queue.ts: const queue: Task[] (task ids, in array order)
    tasks,      \* the Task objects ever created, by id, with their promise
    loops,      \* the invocations of work() suspended at an await
    ops,        \* ops[id]: the operation task id's run() started
    direct,     \* the operations called without the scheduler
    trace,      \* history: the scheduler's events, in order: "delay" and
                \* "run" (a task's delay, operation begins), "settle" (its
                \* promise settles), "idle" (the worker deactivates)
    pendingAt   \* history: pendingAt[id] = the tasks queued when id arrived

\* one attempt of the orchestrator on its own
VARIABLES
    text,       \* the text of the service's response
    result      \* what executeGeneration made of it

parseVars == <<text, result>>

\* the Bundler on its own
VARIABLES
    workspace,  \* the files handed to bundleFiles
    document    \* what bundleFiles made of them

bundleVars == <<workspace, document>>

\* LivePreview: the workspace, its history and the autosave
VARIABLES
    creation,       \* the id of the creation prop, 0 for null
    files,          \* useState: the live workspace
    past,           \* useState: the undo stack, oldest first
    future,         \* useState: the redo stack, next first
    lastEditTime,   \* lastEditTimeRef.current
    saveStatus,     \* useState: "saved", "saving", "unsaved"
    timeoutAt,      \* when the debounce timer of the effect fires, 0: none
    intervalAt,     \* when the interval of the effect fires next, 0: none
    intervalSees,   \* the saveStatus in the closure of the interval callback
    savedTimers,    \* when the pending setSaveStatus("saved") timers fire
    flush,          \* the latest flush and the state of its onAutoSave call
    now,            \* Date.now()
    log,            \* history: the last two handlers called by the user
    burstStart,     \* history: when the current run of edits began
    burstFlushed,   \* history: a flush happened since the run began
    activeCreationFiles,  \* App: activeCreation.files, the creation prop's files
    refining        \* App: isRefining, the files handed to handleRefine and
                    \* how the latest refinement ended

liveVars ==
    <<creation, files, past, future, lastEditTime, saveStatus, timeoutAt,
      intervalAt, intervalSees>>

appVars == <<activeCreationFiles, refining>>

editorVars ==
    <<liveVars, savedTimers, flush, now, log, burstStart, burstFlushed, appVars>>

schedVars == <<counter, running, queue, tasks, loops, ops, direct, trace, pendingAt>>

\* everything outside the scheduler and the orchestrator's operations
uiVars == <<parseVars, bundleVars, editorVars>>

vars == <<schedVars, uiVars>>

Priorities == {"high", "normal"}

Event(ev, id) == [ev |-> ev, id |-> id]

\* The scheduler's part of the state, as one value the synchronous code
\* below transforms.
Sched ==
    [running |-> running, queue |-> queue, tasks |-> tasks, loops |-> loops,
     ops |-> ops, trace |-> trace]

RemoveAt(q, i) == SubSeq(q, 1, i - 1) \o SubSeq(q, i + 1, Len(q))

findHigh_Last(st) ==
    IF \E i \in 1..Len(st.queue) : st.tasks[st.queue[i]].priority = "high"
    THEN CHOOSE i \in 1..Len(st.queue) :
            /\ st.tasks[st.queue[i]].priority = "high"
            /\ \A j \in (i + 1)..Len(st.queue) : st.tasks[st.queue[j]].priority # "high"
    ELSE 0

\* queue.findIndex(t => t.priority === 'high'), 0 standing for -1
findHigh(st) ==
    IF \E i \in 1..Len(st.queue) : st.tasks[st.queue[i]].priority = "high"
    THEN CHOOSE i \in 1..Len(st.queue) :
            /\ st.tasks[st.queue[i]].priority = "high"
            /\ \A j \in 1..(i - 1) : st.tasks[st.queue[j]].priority # "high"
    ELSE 0

pickNext_Fifo(st) == IF Len(st.queue) = 0 THEN 0 ELSE 1

\* pickNext: the index of the task it removes, 0 when it returns null
pickNext(st) ==
    IF findHigh(st) # 0 THEN findHigh(st)
    ELSE IF Len(st.queue) = 0 THEN 0 ELSE 1

delayOf_None(priority) == 0

\* const delay = task.priority === 'normal' ? 1500 : 0
delayOf(priority) == IF priority = "normal" THEN NormalDelay ELSE 0

\* task.run(): () => bringToLife(...), () => refineCreation(...), or any fn
Run(task) ==
    IF task.kind = "fn" THEN StartFn ELSE StartOp(task.kind, task.cf)

\* await task.run(): the operation starts, the loop suspends on it
runTask(st, t) ==
    [st EXCEPT !.ops[t] = Run(st.tasks[t]),
               !.loops = @ \cup {[pc |-> "run", task |-> t]},
               !.trace = Append(@, Event("run", t))]

RECURSIVE work(_)

finally_StaysRunning(st) == [st EXCEPT !.trace = Append(@, Event("idle", 0))]

\* finally { running = false; if (queue.length) work() }
finally(st) ==
    LET s1 == [st EXCEPT !.running = FALSE,
                         !.trace = Append(@, Event("idle", 0))]
    IN  IF Len(s1.queue) # 0 THEN work(s1) ELSE s1

\* while (queue.length) { task = pickNext(); if (!task) break; ... }
\* up to the first await of the iteration
workLoop(st) ==
    IF Len(st.queue) = 0 THEN finally(st)
    ELSE LET i == pickNext(st)
         IN  IF i = 0 THEN finally(st)
             ELSE LET t == st.queue[i]
                      s1 == [st EXCEPT !.queue = RemoveAt(st.queue, i)]
                  IN  IF delayOf(s1.tasks[t].priority) # 0
                      THEN [s1 EXCEPT !.loops = @ \cup {[pc |-> "delay", task |-> t]},
                                      !.trace = Append(@, Event("delay", t))]
                      ELSE runTask(s1, t)

work_NoGuard(st) == workLoop([st EXCEPT !.running = TRUE])

\* if (running) return; running = true; try { ... }
work(st) == IF st.running THEN st ELSE workLoop([st EXCEPT !.running = TRUE])

afterRun_NoCatch(st, t) ==
    LET out == Returned(st.ops[t])
        s0 == [st EXCEPT !.loops = @ \ {[pc |-> "run", task |-> t]}]
        s1 == [s0 EXCEPT !.tasks[t].promise = out,
                         !.trace = Append(@, Event("settle", t))]
    IN  IF out.st = "rejected" THEN finally(s0) ELSE workLoop(s1)

\* the loop resumes after await task.run():
\* task.resolve(res) or, in the catch, task.reject(e); then the next iteration
afterRun(st, t) ==
    LET out == Returned(st.ops[t])
        s1 == [st EXCEPT !.tasks[t].promise =
                             IF out.st = "fulfilled" THEN Fulfilled(out.val)
                             ELSE Rejected(out.err),
                         !.loops = @ \ {[pc |-> "run", task |-> t]},
                         !.trace = Append(@, Event("settle", t))]
    IN  workLoop(s1)

\* the operation of task t moves to its state next: when that settles the
\* promise run() returned, the loop awaiting it resumes in the same turn
opStep(st, t, next) ==
    LET s1 == [st EXCEPT !.ops[t] = next]
    IN  IF /\ Returned(st.ops[t]).st = "pending"
           /\ Returned(next).st # "pending"
           /\ [pc |-> "run", task |-> t] \in st.loops
        THEN afterRun(s1, t)
        ELSE s1

Commit(st) ==
    /\ running' = st.running
    /\ queue' = st.queue
    /\ tasks' = st.tasks
    /\ loops' = st.loops
    /\ ops' = st.ops
    /\ trace' = st.trace

NoResult == [ok |-> FALSE, val |-> EmptyMap, err |-> NoError]

\* no response has been received
ParseIdle == text = <<>> /\ result = NoResult

\* the scheduler as the module is loaded, no operation called
SchedIdle ==
    /\ counter = 0
    /\ running = FALSE
    /\ queue = <<>>
    /\ tasks = <<>>
    /\ loops = {}
    /\ ops = <<>>
    /\ direct = <<>>
    /\ trace = <<>>
    /\ pendingAt = <<>>

NotBundled == [threw |-> FALSE, html |-> <<>>]

\* nothing has been bundled
BundleIdle == workspace = EmptyMap /\ document = NotBundled

\* LivePreview as it mounts, no creation given yet
EditorIdle ==
    /\ creation = 0
    /\ files = EmptyMap
    /\ past = <<>>
    /\ future = <<>>
    /\ lastEditTime = 0
    /\ saveStatus = "saved"
    /\ timeoutAt = 0
    /\ intervalAt = 0
    /\ intervalSees = "saved"
    /\ savedTimers = {}
    /\ flush = NoFlush
    /\ now = StartTime
    /\ log = <<>>
    /\ burstStart = 0
    /\ burstFlushed = FALSE
    /\ activeCreationFiles = EmptyMap
    /\ refining = NotRefining

Init == SchedIdle /\ ParseIdle /\ BundleIdle /\ EditorIdle

\* enqueue(fn, priority): const task = { id: ++counter, ... };
\* queue.push(task); work()
enqueue(kind, cf, priority) ==
    /\ LET id == counter + 1
           s1 == [Sched EXCEPT
                     !.tasks = Append(@, [priority |-> priority, kind |-> kind,
                                          cf |-> cf, promise |-> Pending]),
                     !.ops = Append(@, NoOp),
                     !.queue = Append(@, id)]
       IN  /\ counter' = id
           /\ pendingAt' = Append(pendingAt, {queue[i] : i \in 1..Len(queue)})
           /\ Commit(work(s1))
    /\ UNCHANGED <<direct, uiVars>>

\* the setTimeout of the artificial delay fires
DelayElapsed(t) ==
    /\ [pc |-> "delay", task |-> t] \in loops
    /\ Commit(runTask([Sched EXCEPT !.loops = @ \ {[pc |-> "delay", task |-> t]}], t))
    /\ UNCHANGED <<counter, direct, pendingAt, uiVars>>

\* the service answers the call a task's operation has in flight
ServiceResponds(t, resp) ==
    /\ ops[t].phase = "call"
    /\ Commit(opStep(Sched, t, OpRespond(ops[t], resp)))
    /\ UNCHANGED <<counter, direct, pendingAt, uiVars>>

\* the backoff timer of a task's operation fires
BackoffElapsed(t) ==
    /\ ops[t].phase = "backoff"
    /\ Commit(opStep(Sched, t, OpBackoffElapsed(ops[t])))
    /\ UNCHANGED <<counter, direct, pendingAt, uiVars>>

\* the deadline of a task's operation expires
DeadlineExpires(t) ==
    /\ ops[t].wt.timer = "armed"
    /\ Commit(opStep(Sched, t, OpTimerFires(ops[t])))
    /\ UNCHANGED <<counter, direct, pendingAt, uiVars>>

\* the arbitrary operation of a task settles
RunSettles(t, res) ==
    /\ ops[t].phase = "run"
    /\ Commit(opStep(Sched, t, OpFnSettles(ops[t], res)))
    /\ UNCHANGED <<counter, direct, pendingAt, uiVars>>

\* an operation is called without the scheduler
Direct(op) ==
    /\ direct' = Append(direct, op)
    /\ UNCHANGED <<counter, running, queue, tasks, loops, ops, trace, pendingAt, uiVars>>

DirectStep(c, next) ==
    /\ direct' = [direct EXCEPT ![c] = next]
    /\ UNCHANGED <<counter, running, queue, tasks, loops, ops, trace, pendingAt, uiVars>>

DirectResponds(c, resp) ==
    /\ direct[c].phase = "call"
    /\ DirectStep(c, OpRespond(direct[c], resp))

DirectBackoffElapsed(c) ==
    /\ direct[c].phase = "backoff"
    /\ DirectStep(c, OpBackoffElapsed(direct[c]))

DirectDeadlineExpires(c) ==
    /\ direct[c].wt.timer = "armed"
    /\ DirectStep(c, OpTimerFires(direct[c]))

DirectFnSettles(c, res) ==
    /\ direct[c].phase = "run"
    /\ DirectStep(c, OpFnSettles(direct[c], res))

TaskIds == 1..Len(tasks)
DirectIds == 1..Len(direct)

\* ------------------------------------------------------------------ Spec
\* The application: handleGenerate and handleRefine enqueue their requests,
\* handleFrameworkExport calls convertToFramework without the scheduler.
Request(kind, cf, priority) ==
    /\ counter < MaxRequests
    /\ enqueue(kind, cf, priority)

\* handleFrameworkExport: await convertToFramework(files, framework)
Convert(cf) ==
    /\ Len(direct) < MaxConverts
    /\ Direct(StartOp("convert", cf))

Next ==
    \/ \E p \in Priorities : Request("generate", EmptyMap, p)
    \/ \E p \in Priorities, cf \in WorkspaceMaps : Request("refine", cf, p)
    \/ \E t \in TaskIds : DelayElapsed(t)
    \/ \E t \in TaskIds, resp \in Responses : ServiceResponds(t, resp)
    \/ \E t \in TaskIds : BackoffElapsed(t)
    \/ \E t \in TaskIds : DeadlineExpires(t)
    \/ \E cf \in WorkspaceMaps : Convert(cf)
    \/ \E c \in DirectIds, resp \in Responses : DirectResponds(c, resp)
    \/ \E c \in DirectIds : DirectDeadlineExpires(c)

Spec == Init /\ [][Next]_vars

\* ------------------------------------------------------------- QueueSpec
\* The Request Scheduler on its own, with tasks whose operation is any
\* asynchronous function.
EnqueueFn(priority) ==
    /\ counter < MaxTasks
    /\ enqueue("fn", EmptyMap, priority)

QueueNext ==
    \/ \E p \in Priorities : EnqueueFn(p)
    \/ \E t \in TaskIds : DelayElapsed(t)
    \/ \E t \in TaskIds, res \in FnResults : RunSettles(t, res)

QueueSpec == Init /\ [][QueueNext]_vars

\* the timers of the event loop fire, and the operations settle
QueueFair ==
    /\ WF_vars(\E t \in TaskIds : DelayElapsed(t))
    /\ WF_vars(\E t \in TaskIds, res \in FnResults : RunSettles(t, res))

FairQueueSpec == QueueSpec /\ QueueFair

\* -------------------------------------------------------------- OrchSpec
\* The Generation Orchestrator and the Timeout Guard on their own: the
\* exported operations called directly, and withTimeout around any promise.
TimeoutInputs == {0, 5000}
MessageInputs == {NoMessage, "", "custom message"}

Call(kind, cf) ==
    /\ Len(direct) < MaxCalls
    /\ Direct(StartOp(kind, cf))

Guard(errorMessage, timeoutMs) ==
    /\ Len(direct) < MaxCalls
    /\ Direct(StartGuardedFn(errorMessage, timeoutMs))

OrchNext ==
    \/ Call("generate", EmptyMap)
    \/ \E cf \in WorkspaceMaps : Call("refine", cf)
    \/ \E cf \in WorkspaceMaps : Call("convert", cf)
    \/ \E m \in MessageInputs, ms \in TimeoutInputs : Guard(m, ms)
    \/ \E c \in DirectIds, resp \in Responses : DirectResponds(c, resp)
    \/ \E c \in DirectIds : DirectBackoffElapsed(c)
    \/ \E c \in DirectIds : DirectDeadlineExpires(c)
    \/ \E c \in DirectIds, res \in FnResults : DirectFnSettles(c, res)

OrchSpec == Init /\ [][OrchNext]_vars

\* ------------------------------------------------------------- ParseSpec
\* One attempt on its own: executeGeneration on the texts the service may
\* answer with.  A text is an optional conversational prefix, an optional
\* opening fence, a body, an optional closing fence, an optional suffix.
Prefixes == {<<>>, <<"Here is your code:", "<newline>">>}
OpeningFences == {<<>>, <<Fence, "<newline>">>, <<Fence, "json", "<newline>">>}
ClosingFences == {<<>>, <<"<newline>", Fence>>, <<"<newline>", Fence, "<newline>">>}
Suffixes == {<<>>, <<"<newline>", "Enjoy!">>}

\* bare markup documents, without and with braces in them
Markups ==
    {HtmlText,
     <<"<html>", "<p>hi</p>", "</html>">>,
     <<"<!DOCTYPE html>", "<style>", "h1", "{", "}", "</style>">>,
     <<"<html>", "<style>", "body", "{", "margin:0", "}", "</style>", "</html>">>}

Bodies ==
    {jsonText(j) : j \in JsonValues} \cup Markups
        \cup {<<>>, <<"I cannot help with that.">>, <<"{", "\"index.html\"", ":">>}

ResponseTexts ==
    {p \o o \o b \o c \o x :
        p \in Prefixes, o \in OpeningFences, b \in Bodies,
        c \in ClosingFences, x \in Suffixes}

ParseInit ==
    /\ SchedIdle /\ BundleIdle /\ EditorIdle
    /\ text \in ResponseTexts /\ result = NoResult

\* the service answers with text: executeGeneration returns or throws
Parse ==
    /\ result = NoResult
    /\ result' = executeGeneration(TextResponse(text))
    /\ UNCHANGED <<schedVars, text, bundleVars, editorVars>>

ParseNext == Parse

ParseSpec == ParseInit /\ [][ParseNext]_vars

\* ------------------------------------------------------------ BundleSpec
\* The Bundler on its own: bundleFiles on the workspaces below.
EntryDocuments ==
    {<<"<head>", "</head>", "<body>", "</body>">>,
     <<"<head>", LinkStyles, "</head>", "<body>", ScriptTag, "</body>">>,
     <<"<head>", LinkDotStyles, "</head>", "<body>", "<h1>a</h1>", "</body>">>,
     <<"<h1>a</h1>">>}

StyleContents == {<<"h1", "{", "}">>}
ScriptContents == {<<"go()">>, <<"s.replace(/a/,", "\"", "$&", "\"", ")">>}

\* the file maps with the file at path absent or with one of the contents
WithFile(maps, path, contents) ==
    maps \cup {fm @@ (path :> c) : fm \in maps, c \in contents}

Workspaces ==
    WithFile(WithFile(WithFile(WithFile({EmptyMap},
        "index.html", EntryDocuments),
        "styles.css", StyleContents),
        "script.js", ScriptContents),
        "c++.css", StyleContents)

BundleInit ==
    /\ SchedIdle /\ ParseIdle /\ EditorIdle
    /\ workspace \in Workspaces /\ document = NotBundled

\* const bundled = bundleFiles(debouncedFiles)
Bundle ==
    /\ document = NotBundled
    /\ document' = bundleFiles(workspace)
    /\ UNCHANGED <<schedVars, parseVars, workspace, editorVars>>

BundleNext == Bundle

BundleSpec == BundleInit /\ [][BundleNext]_vars

\* ------------------------------------------------------------ the editor
\* The state of the component, as one value the handlers transform.
Live ==
    [creation |-> creation, files |-> files, past |-> past, future |-> future,
     lastEditTime |-> lastEditTime, saveStatus |-> saveStatus,
     timeoutAt |-> timeoutAt, intervalAt |-> intervalAt,
     intervalSees |-> intervalSees]

CommitLive(st) ==
    /\ creation' = st.creation
    /\ files' = st.files
    /\ past' = st.past
    /\ future' = st.future
    /\ lastEditTime' = st.lastEditTime
    /\ saveStatus' = st.saveStatus
    /\ timeoutAt' = st.timeoutAt
    /\ intervalAt' = st.intervalAt
    /\ intervalSees' = st.intervalSees

\* the last two handlers the user called, and whether each called a state
\* setter
Logged(op, changed) ==
    LET call == [op |-> op, changed |-> changed]
    IN  log' = IF log = <<>> THEN <<call>> ELSE <<log[Len(log)], call>>

otherVars == <<schedVars, parseVars, bundleVars>>

\* the creation prop gets its creation: the syncing effect
Open(id, creationFiles) ==
    /\ creation = 0
    /\ CommitLive(syncCreation(Live, id, creationFiles, now))
    /\ Logged("open", TRUE)
    /\ activeCreationFiles' = creationFiles
    /\ UNCHANGED <<otherVars, refining, savedTimers, flush, now, burstStart,
                   burstFlushed>>

\* the user changes the content of the active file; a run of edits goes on
\* while each edit comes before the debounce armed by the one before expires
Edit(newContent, isPro) ==
    /\ creation # 0
    /\ CommitLive(handleFileChange(Live, newContent, isPro, now))
    /\ IF isPro
       THEN /\ Logged("edit", TRUE)
            /\ IF lastEditTime = 0 \/ now - lastEditTime >= SAVE_DEBOUNCE
               THEN burstStart' = now /\ burstFlushed' = FALSE
               ELSE UNCHANGED <<burstStart, burstFlushed>>
       ELSE UNCHANGED <<log, burstStart, burstFlushed>>
    /\ UNCHANGED <<otherVars, appVars, savedTimers, flush, now>>

\* Ctrl+Z
Undo ==
    /\ creation # 0
    /\ CommitLive(handleUndo(Live, now))
    /\ Logged("undo", past # <<>>)
    /\ UNCHANGED <<otherVars, appVars, savedTimers, flush, now, burstStart, burstFlushed>>

\* Ctrl+Y
Redo ==
    /\ creation # 0
    /\ CommitLive(handleRedo(Live, now))
    /\ Logged("redo", future # <<>>)
    /\ UNCHANGED <<otherVars, appVars, savedTimers, flush, now, burstStart, burstFlushed>>

\* time passes in the open editor, when no timer is due; the persistence
\* call of a flush settles within SaveTicks
Tick(limit) ==
    /\ creation # 0
    /\ now < StartTime + limit * Granularity
    /\ flush.save = "pending" => now < flush.at + SaveTicks * Granularity
    /\ timeoutAt # now /\ intervalAt # now /\ now \notin savedTimers
    /\ now' = now + Granularity
    /\ UNCHANGED <<otherVars, appVars, liveVars, savedTimers, flush, log, burstStart,
                   burstFlushed>>

\* setSaveStatus("saving"); onAutoSave(files); setLastSavedTime(...);
\* setTimeout(() => setSaveStatus("saved"), 500)
Flushing ==
    /\ saveStatus' = "saving"
    /\ flush' = Flush(files, now)
    /\ savedTimers' = savedTimers \cup {now + SAVED_DELAY}
    /\ burstFlushed' = TRUE

\* the debounce timer fires
DebounceFires ==
    /\ timeoutAt # 0 /\ timeoutAt = now
    /\ timeoutAt' = 0
    /\ Flushing
    /\ UNCHANGED <<otherVars, appVars, creation, files, past, future, lastEditTime,
                   intervalAt, intervalSees, now, log, burstStart>>

\* the interval fires: if (saveStatus === "unsaved") the same flush
IntervalFires ==
    /\ intervalAt # 0 /\ intervalAt = now
    /\ intervalAt' = now + MAX_WAIT
    /\ IF intervalSees = "unsaved"
       THEN Flushing
       ELSE UNCHANGED <<saveStatus, flush, savedTimers, burstFlushed>>
    /\ UNCHANGED <<otherVars, appVars, creation, files, past, future, lastEditTime,
                   timeoutAt, intervalSees, now, log, burstStart>>

\* () => setSaveStatus("saved"), 500 ms after a flush; savedWhile keeps
\* the state the persistence call of that flush was in at that moment
SavedTimerFires ==
    /\ now \in savedTimers
    /\ savedTimers' = savedTimers \ {now}
    /\ saveStatus' = "saved"
    /\ flush' = IF flush.at + SAVED_DELAY = now
                THEN [flush EXCEPT !.savedWhile = flush.save]
                ELSE flush
    /\ UNCHANGED <<otherVars, appVars, creation, files, past, future, lastEditTime,
                   timeoutAt, intervalAt, intervalSees, now, log, burstStart,
                   burstFlushed>>

\* the persistence call of the latest flush settles.  handleAutoSave after
\* await saveCreation(updated): on success setActiveCreation(updated) hands
\* LivePreview a new creation object and a new onAutoSave, so the autosave
\* effect runs again; on failure the error is logged
SaveSettles(ok) ==
    /\ flush.save = "pending"
    /\ flush' = [flush EXCEPT !.save = IF ok THEN "ok" ELSE "failed"]
    /\ IF ok
       THEN /\ CommitLive(autoSaveEffect(Live, now))
            /\ activeCreationFiles' = flush.files
       ELSE UNCHANGED <<liveVars, activeCreationFiles>>
    /\ UNCHANGED <<otherVars, refining, savedTimers, now, log, burstStart,
                   burstFlushed>>

\* handleRefinementSubmit: onRefine(refinementPrompt, files); handleRefine
\* sets isRefining, App renders again and the autosave effect with it
Refine ==
    /\ creation # 0 /\ ~refining.on
    /\ refining.n < MaxRefines
    /\ refining' = Refining(refining, files)
    /\ CommitLive(autoSaveEffect(Live, now))
    /\ Logged("refine", TRUE)
    /\ UNCHANGED <<otherVars, activeCreationFiles, savedTimers, flush, now,
                   burstStart, burstFlushed>>

\* handleRefine after its awaits: refineCreation returned the merged files
\* and saveCreation stored them: setActiveCreation(updatedCreation), and
\* isRefining goes back to false
RefineSucceeds(updates) ==
    /\ refining.on
    /\ LET updatedFiles == Merge(refining.cf, updates)
       IN  /\ activeCreationFiles' = updatedFiles
           /\ refining' = Refined(refining, "ok", updatedFiles)
           /\ CommitLive(syncRefinement(Live, updatedFiles, now))
    /\ Logged("refined", TRUE)
    /\ UNCHANGED <<otherVars, savedTimers, flush, now, burstStart, burstFlushed>>

\* handleRefine after enqueue(...) or saveCreation(...) rejected: the
\* catch shows a toast, and isRefining goes back to false
RefineFails ==
    /\ refining.on
    /\ refining' = Refined(refining, "failed", EmptyMap)
    /\ CommitLive(syncRefinement(Live, activeCreationFiles, now))
    /\ Logged("refineFailed", TRUE)
    /\ UNCHANGED <<otherVars, activeCreationFiles, savedTimers, flush, now,
                   burstStart, burstFlushed>>

\* ----------------------------------------------------------- HistorySpec
\* The editor over a few seconds: edits at any moment, undo and redo.  The
\* maximum-wait interval cannot come due within these seconds.
EditContents == {<<"<h1>x</h1>">>, <<"<h1>y</h1>">>}

HistoryNext ==
    \/ Open(1, FilesA)
    \/ \E c \in EditContents, isPro \in BOOLEAN : Edit(c, isPro)
    \/ Undo
    \/ Redo
    \/ Tick(HistoryTicks)
    \/ DebounceFires
    \/ SavedTimerFires
    \/ \E ok \in BOOLEAN : SaveSettles(ok)

HistorySpec == Init /\ [][HistoryNext]_vars

\* ------------------------------------------------------- LongHistorySpec
\* The editor with a long history: the creation was opened and edited n
\* times, one EditPace apart, the last time at StartTime.  No
\* timer came due meanwhile, each edit arming both anew, and none comes due
\* in the second and a half the editor is watched for.
Snapshot(k) ==
    IF k = 0 THEN FilesA
    ELSE (ActiveFile :> IF k % 2 = 1 THEN <<"<h1>x</h1>">> ELSE <<"<h1>y</h1>">>)
            @@ FilesA

EditPace == EDIT_WINDOW + Granularity

\* the editor after k edits, the last of them at time t: every edit pushed
\* the workspace before it and armed the timers anew
Edited(k, t) ==
    [creation |-> 1, files |-> Snapshot(k),
     past |-> [i \in 1..k |-> Snapshot(i - 1)], future |-> <<>>,
     lastEditTime |-> t, saveStatus |-> "unsaved",
     timeoutAt |-> t + SAVE_DEBOUNCE, intervalAt |-> t + MAX_WAIT,
     intervalSees |-> "unsaved"]

LongInit ==
    /\ SchedIdle /\ ParseIdle /\ BundleIdle
    /\ \E n \in {HISTORY_CAP - 1, HISTORY_CAP} :
          /\ LET e == handleFileChange(Edited(n - 1, StartTime - EditPace),
                                       Snapshot(n)[ActiveFile], TRUE, StartTime)
             IN  /\ creation = e.creation
                 /\ files = e.files
                 /\ past = e.past
                 /\ future = e.future
                 /\ lastEditTime = e.lastEditTime
                 /\ saveStatus = e.saveStatus
                 /\ timeoutAt = e.timeoutAt
                 /\ intervalAt = e.intervalAt
                 /\ intervalSees = e.intervalSees
          /\ burstStart = StartTime - (n - 1) * EditPace
    /\ savedTimers = {}
    /\ flush = NoFlush
    /\ now = StartTime
    /\ log = <<[op |-> "edit", changed |-> TRUE], [op |-> "edit", changed |-> TRUE]>>
    /\ burstFlushed = FALSE
    /\ activeCreationFiles = FilesA
    /\ refining = NotRefining

\* the user goes back at most MaxUndo steps
ShallowUndo == Len(future) < MaxUndo /\ Undo

LongHistoryNext ==
    \/ \E c \in EditContents : Edit(c, TRUE)
    \/ ShallowUndo
    \/ Redo
    \/ Tick(LongTicks)

LongHistorySpec == LongInit /\ [][LongHistoryNext]_vars

\* ------------------------------------------------------------ RefineSpec
\* The editor with refinements: edits, undo, redo and flushes at any moment
\* before, during and after a refinement.
RefineNext ==
    \/ Open(1, FilesA)
    \/ Edit(<<"<h1>x</h1>">>, TRUE)
    \/ Undo
    \/ Redo
    \/ Tick(RefineTicks)
    \/ DebounceFires
    \/ SavedTimerFires
    \/ \E ok \in BOOLEAN : SaveSettles(ok)
    \/ Refine
    \/ \E updates \in ServiceMaps : RefineSucceeds(updates)
    \/ RefineFails

RefineSpec == Init /\ [][RefineNext]_vars

\* ---------------------------------------------------------- AutosaveSpec
\* The autosave over more than forty seconds: the user begins to type
\* before or when the first debounce expires, types on without pausing for
\* longer than the grouping window, and stops at some moment.
Type(newContent) ==
    /\ IF lastEditTime = 0
       THEN now <= StartTime + SAVE_DEBOUNCE
       ELSE now - lastEditTime <= EDIT_WINDOW
    /\ Edit(newContent, TRUE)

AutosaveNext ==
    \/ Open(1, FilesA)
    \/ Type(<<"<h1>x</h1>">>)
    \/ Tick(AutosaveTicks)
    \/ DebounceFires
    \/ IntervalFires
    \/ SavedTimerFires
    \/ \E ok \in BOOLEAN : SaveSettles(ok)

AutosaveSpec == Init /\ [][AutosaveNext]_vars

\* ------------------------------------------------- reading the history
Range(q) == {q[i] : i \in 1..Len(q)}

Occurred(ev, id) == \E i \in 1..Len(trace) : trace[i] = Event(ev, id)

\* the position of an event that occurred (each occurs once per task)
Index(ev, id) == CHOOSE i \in 1..Len(trace) : trace[i] = Event(ev, id)

\* the worker selected task id: its delay or its operation began
Selected(id) == Occurred("delay", id) \/ Occurred("run", id)

SelectedAt(id) ==
    IF Occurred("delay", id) THEN Index("delay", id) ELSE Index("run", id)

Settled(id) == tasks[id].promise.st # "pending"

\* ------------------------------------------------------------------- C1
\* C1 (QueueSpec): in every reachable state at most one invocation of work()
\* is active, at most one task is between its selection and its settlement,
\* and at most one task's operation is executing; the running flag is set
\* exactly while a worker loop is active.
C1_MutualExclusion ==
    /\ Cardinality(loops) <= 1
    /\ Cardinality({t \in TaskIds : Selected(t) /\ ~Settled(t)}) <= 1
    /\ Cardinality({t \in TaskIds : ops[t].phase = "run"}) <= 1
    /\ running <=> loops # {}
    /\ \A l \in loops : l.task \notin Range(queue) /\ ~Settled(l.task)

\* a task's operation is executing while two more tasks, enqueued in the
\* meantime, wait
C1_Witness ==
    /\ Len(queue) >= 2
    /\ \E l \in loops : l.pc = "run" /\ ops[l.task].phase = "run"

\* ------------------------------------------------------------------- C3
\* the tasks a step selects: those whose first event the step appends
NewlySelected ==
    {t \in 1..Len(tasks') :
        /\ \E i \in (Len(trace) + 1)..Len(trace') :
              trace'[i].id = t /\ trace'[i].ev \in {"delay", "run"}
        /\ \A j \in 1..Len(trace) : trace[j].id # t}

\* the tasks pending when the step's selection is made: those queued before
\* the step and the one it enqueues
Candidates == Range(queue) \cup ((counter + 1)..counter')

\* the selection rule: the earliest-enqueued HIGH candidate if there is one,
\* otherwise the earliest-enqueued candidate
SelectionRule ==
    \A t \in NewlySelected :
        /\ t \in Candidates
        /\ IF \E h \in Candidates : tasks'[h].priority = "high"
           THEN /\ tasks'[t].priority = "high"
                /\ \A h \in Candidates : tasks'[h].priority = "high" => t <= h
           ELSE \A c \in Candidates : t <= c

\* tasks of one tier start in the order they were enqueued
FifoWithinTier ==
    \A a, b \in TaskIds :
        (a < b /\ tasks[a].priority = tasks[b].priority /\ Selected(b))
            => Selected(a) /\ SelectedAt(a) < SelectedAt(b)

\* a HIGH task that arrives while an earlier NORMAL task is still pending
\* has settled before that NORMAL task is selected
HighBeforePendingNormal ==
    \A a, b \in TaskIds :
        (/\ tasks[a].priority = "normal" /\ tasks[b].priority = "high"
         /\ a \in pendingAt[b] /\ Selected(a))
            => Occurred("settle", b) /\ Index("settle", b) < SelectedAt(a)

\* C3 (QueueSpec): every selection takes the earliest-enqueued pending HIGH
\* task if a HIGH task is pending and the earliest-enqueued pending NORMAL
\* task otherwise; so a HIGH task completes before any NORMAL task that was
\* enqueued earlier and is still pending, and the tasks of one tier start in
\* the order they were enqueued.
C3_PrioritySelection ==
    /\ [][SelectionRule]_vars
    /\ [](FifoWithinTier /\ HighBeforePendingNormal)

\* a HIGH task overtook a NORMAL task that was pending when it arrived, and
\* all the tasks have settled, the NORMAL one last
C3_Witness ==
    \E a, b \in TaskIds :
        /\ a < b
        /\ tasks[a].priority = "normal" /\ tasks[b].priority = "high"
        /\ a \in pendingAt[b]
        /\ \A t \in TaskIds : Settled(t)
        /\ Index("settle", b) < SelectedAt(a)
        /\ trace[Len(trace) - 1] = Event("settle", a)

\* ------------------------------------------------------------------- C4
\* C4 as stated (QueueSpec): the first task, NORMAL, arrives at an idle
\* scheduler with an empty queue and the second, HIGH, arrives next; the
\* delay of the first has not begun unless the operation of the second
\* started before it.
C4_AsStated ==
    (/\ Len(tasks) >= 2
     /\ tasks[1].priority = "normal" /\ tasks[2].priority = "high")
        => (Occurred("delay", 1)
                => Occurred("run", 2) /\ Index("run", 2) < Index("delay", 1))

\* C4 amended (QueueSpec): when HIGH task B arrives while NORMAL task A is
\* still pending (both were enqueued while the worker was busy with an
\* earlier task), B's operation starts before A's artificial delay begins;
\* a NORMAL task that arrives at an idle scheduler is selected by its own
\* enqueue call, its delay begins at once, and a HIGH task enqueued next
\* starts only after that task has settled.
C4_HighOvertakesPendingNormal ==
    /\ \A a, b \in TaskIds :
          (/\ tasks[a].priority = "normal" /\ tasks[b].priority = "high"
           /\ a \in pendingAt[b] /\ Occurred("delay", a))
              => Occurred("run", b) /\ Index("run", b) < Index("delay", a)
    /\ (Len(tasks) >= 1 /\ tasks[1].priority = "normal")
          => trace[1] = Event("delay", 1)
    /\ (/\ Len(tasks) >= 2
        /\ tasks[1].priority = "normal" /\ tasks[2].priority = "high"
        /\ Occurred("run", 2))
          => Occurred("settle", 1) /\ Index("settle", 1) < Index("run", 2)

\* NORMAL task 2 and then HIGH task 3 arrived while task 1 was being served,
\* and both have started
C4_Witness ==
    /\ Len(tasks) >= 3
    /\ tasks[2].priority = "normal" /\ tasks[3].priority = "high"
    /\ pendingAt[2] = {} /\ pendingAt[3] = {2}
    /\ Occurred("run", 3) /\ Occurred("delay", 2)

\* ------------------------------------------------------------------- C5
\* the step in which a task is rejected: it is rejected with the error of
\* its own operation, no other task's promise changes, and if tasks are
\* queued the loop goes on to select one of them in the same turn
RejectionStep ==
    \A t \in TaskIds :
        (~Settled(t) /\ tasks'[t].promise.st = "rejected")
            => /\ Returned(ops'[t]).st = "rejected"
               /\ tasks'[t].promise.err = Returned(ops'[t]).err
               /\ \A u \in TaskIds \ {t} : tasks'[u].promise = tasks[u].promise
               /\ queue # <<>> =>
                     \E l \in loops' : l.task \in Range(queue) /\ l.task # t

\* every task is settled with the outcome of its own operation, as soon as
\* that operation settles
OwnOutcome ==
    \A t \in TaskIds :
        /\ Settled(t) => tasks[t].promise = Returned(ops[t])
        /\ Returned(ops[t]).st # "pending" => Settled(t)

\* C5 (QueueSpec): when a task's operation rejects, the task's promise is
\* rejected with that error, the worker loop goes on with the queued tasks,
\* and every task is settled with the outcome of its own operation whatever
\* happened to the others.
C5_FailureIsolation == [][RejectionStep]_vars /\ []OwnOutcome

\* a task was rejected and a task that waited behind it was then fulfilled
C5_Witness ==
    \E t, u \in TaskIds :
        /\ t \in pendingAt[u] \/ (t < u /\ pendingAt[u] = pendingAt[t] \cup {t})
        /\ tasks[t].promise.st = "rejected"
        /\ tasks[u].promise.st = "fulfilled"
        /\ Index("settle", t) < Index("settle", u)

\* ------------------------------------------------------------------- C6
AllSettled == \A t \in TaskIds : Settled(t)

\* whenever control is back in the event loop with tasks queued, a worker
\* loop is active
NoLostWakeup == queue # <<>> => running /\ loops # {}

\* once every task has settled the worker is inactive and the queue empty
EndsInactive == AllSettled => ~running /\ loops = {} /\ queue = <<>>

\* C6 (FairQueueSpec): every enqueued task is eventually selected and its
\* promise eventually settles (again and again all the tasks enqueued so far
\* have been selected and have settled), also when a task arrives after the
\* worker has deactivated; with tasks queued a worker loop is active, and
\* the worker ends inactive with an empty queue.
C6_NoLostWakeup ==
    /\ [](NoLostWakeup /\ EndsInactive)
    /\ []<>(\A t \in TaskIds : Selected(t) /\ Settled(t))

\* the worker deactivated, a task arrived afterwards, and it was served
C6_Witness ==
    /\ AllSettled /\ ~running
    /\ \E i, j \in 1..Len(trace) :
          /\ i < j
          /\ trace[i].ev = "idle"
          /\ trace[j].ev = "settle"

\* ------------------------------------------------------------------- C2
\* the calls to the external generation service that are in flight
InFlight ==
    Cardinality({t \in TaskIds : ops[t].phase = "call"})
        + Cardinality({c \in DirectIds : direct[c].phase = "call"})

\* C2 (Spec): at any time at most one call to the external generation
\* service is in flight, whatever generate, refine and convert requests the
\* callers issue and whichever deadlines expire.
C2_OneCallInFlight == InFlight <= 1

\* the same, for the generate and refine requests alone: no two operations
\* started by the scheduler have a service call in flight together
C2_OneQueuedCallInFlight ==
    Cardinality({t \in TaskIds : ops[t].phase = "call"}) <= 1

\* ------------------------------------------------------------------- C7
\* the message a TimeoutError of guard g must carry
ExpectedTimeout(g) ==
    IF g.errorMessage = NoMessage \/ g.errorMessage = ""
    THEN [name |-> "TimeoutError",
          message |-> "Operation timed out after ${timeoutMs}ms",
          ms |-> g.timeoutMs]
    ELSE [name |-> "TimeoutError", message |-> g.errorMessage, ms |-> 0]

GuardOutcome ==
    \A c \in DirectIds :
        LET g == direct[c].wt
        IN  \* nothing is delivered before the operation or the timer acts
            /\ (g.promise.st = "pending" /\ g.timer = "armed") => g.out.st = "pending"
            \* the operation fulfilled before the deadline: its value
            /\ (g.promise.st = "fulfilled" /\ g.timer # "fired")
                  => g.out = Fulfilled(g.promise.val)
            \* the deadline elapsed first: a TimeoutError with the message
            /\ g.timer = "fired" => g.out = Rejected(ExpectedTimeout(g))
            /\ g.out.st = "fulfilled" => g.promise = g.out
            \* the timer is armed exactly while the outcome is open
            /\ g.timer = "armed" <=> g.out.st = "pending"

\* once the caller has an outcome, no step changes it
SettlesOnce ==
    \A c \in DirectIds :
        direct[c].wt.out.st # "pending" => direct'[c].wt.out = direct[c].wt.out

\* C7 (OrchSpec): withTimeout settles exactly once; when the wrapped
\* operation fulfils before the deadline the caller gets its value, when the
\* deadline elapses first the caller gets a TimeoutError with the message
\* supplied by the caller, or the default message when none (or an empty
\* one) was supplied; a later settlement of the operation changes nothing.
C7_TimeoutOutcome == []GuardOutcome /\ [][SettlesOnce]_vars

\* the deadline elapsed, the caller got the TimeoutError with the default
\* message, and the operation fulfilled afterwards
C7_Witness ==
    \E c \in DirectIds :
        LET g == direct[c].wt
        IN  /\ g.errorMessage = NoMessage /\ g.timeoutMs = 5000
            /\ g.timer = "fired"
            /\ g.promise.st = "fulfilled"
            /\ g.out.st = "rejected" /\ g.out.err.ms = 5000

\* ------------------------------------------------------------------- C8
\* C8 (OrchSpec): when the wrapped operation rejects before the deadline,
\* withTimeout rejects with that very error, and every failure the caller
\* gets that is no TimeoutError is the operation's own, unchanged.
C8_FailureTransparency ==
    \A c \in DirectIds :
        LET g == direct[c].wt
        IN  /\ (g.promise.st = "rejected" /\ g.timer # "fired")
                  => g.out = Rejected(g.promise.err) /\ ~isTimeoutError(g.out.err)
            /\ (g.out.st = "rejected" /\ ~isTimeoutError(g.out.err))
                  => g.promise.st = "rejected" /\ g.out.err = g.promise.err

\* an operation was rejected by the service before its deadline and the
\* caller holds that error
C8_Witness ==
    \E c \in DirectIds :
        LET g == direct[c].wt
        IN  /\ g.timer = "cleared"
            /\ g.promise = Rejected(ServiceError)
            /\ g.out = Rejected(ServiceError)

\* ------------------------------------------------------------------- C9
Retrying(op) == op.kind \in {"generate", "refine"}

RetryDiscipline ==
    \A c \in DirectIds :
        LET op == direct[c]
            n == Len(op.calls)
        IN  Retrying(op) =>
              \* at most three calls to the service
              /\ n <= 3
              \* the primary model first, the fallback model afterwards
              /\ op.calls[1].model = "gemini-3-pro-preview"
              /\ \A i \in 2..n : op.calls[i].model = "gemini-2.5-flash"
              \* a further attempt only after every earlier one failed
              /\ \A i \in 1..(n - 1) : op.calls[i].res \in {"parse", "service"}
              \* the first success is returned and ends the attempts
              /\ op.calls[n].res = "ok"
                    => /\ op.phase = "done"
                       /\ op.wt.promise =
                             Fulfilled(IF op.kind = "refine"
                                       THEN Merge(op.cf, op.calls[n].val)
                                       ELSE op.calls[n].val)
              /\ op.wt.promise.st = "fulfilled" => op.calls[n].res = "ok"

\* no call is added once an attempt succeeded
NoCallAfterSuccess ==
    \A c \in DirectIds :
        (\E i \in 1..Len(direct[c].calls) : direct[c].calls[i].res = "ok")
            => direct'[c].calls = direct[c].calls

\* C9 (OrchSpec): a generate or refine operation calls the service at most 3
\* times, attempt 0 with the primary model and every later attempt with the
\* fallback model; an attempt is made only after all the earlier ones
\* failed, and the first successful attempt's result is returned, with no
\* further attempt.
C9_RetryEscalation == []RetryDiscipline /\ [][NoCallAfterSuccess]_vars

\* two attempts failed and the third, on the fallback model, succeeded
C9_Witness ==
    \E c \in DirectIds :
        LET op == direct[c]
        IN  /\ Retrying(op)
            /\ Len(op.calls) = 3
            /\ op.calls[1].res = "parse" /\ op.calls[2].res = "service"
            /\ op.calls[3].res = "ok"
            /\ op.wt.promise.st = "fulfilled"

\* ------------------------------------------------------------------ C10
\* C10 (OrchSpec): when all three attempts of generate fail with parse
\* errors, attempts 2 and 3 used the fallback model and the caller (unless
\* the deadline came first) receives one terminal failure of kind
\* GenerationExhaustedError, which is neither the per-attempt parse failure
\* nor a TimeoutError.
C10_Exhaustion ==
    \A c \in DirectIds :
        LET op == direct[c]
        IN  (/\ op.kind = "generate"
             /\ Len(op.calls) = 3
             /\ \A i \in 1..3 : op.calls[i].res = "parse"
             /\ op.wt.timer # "fired")
                => /\ op.calls[2].model = FALLBACK_MODEL
                   /\ op.calls[3].model = FALLBACK_MODEL
                   /\ op.wt.out.st = "rejected"
                   /\ op.wt.out.err.name = "GenerationExhaustedError"
                   /\ op.wt.out.err # ParseError
                   /\ ~isTimeoutError(op.wt.out.err)

\* ------------------------------------------------------------------ C11
\* the result of a refinement that succeeded is the merge of the prior file
\* map fm and the response r
MergedResult ==
    \A c \in DirectIds :
        LET op == direct[c]
            fm == op.cf
            r == op.calls[Len(op.calls)].val
            res == op.wt.promise.val
        IN  (op.kind = "refine" /\ op.wt.promise.st = "fulfilled")
                => /\ DOMAIN res = (DOMAIN fm) \cup (DOMAIN r)
                   /\ \A k \in DOMAIN r : res[k] = r[k]
                   /\ \A k \in (DOMAIN fm) \ (DOMAIN r) : res[k] = fm[k]

\* the prior file map handed to refine is the same before and after
PriorMapKept ==
    \A c \in DirectIds : direct'[c].cf = direct[c].cf /\ direct[c].cf \in WorkspaceMaps \cup {EmptyMap}

\* C11 (OrchSpec): for every prior file map fm and every refinement response
\* r, the result of refine has exactly the keys of fm united with the keys of
\* r; every key of r maps to r's entry and every key of fm absent from r maps
\* to fm's entry; fm itself is not modified.
C11_RefineMerge == []MergedResult /\ [][PriorMapKept]_vars

\* a refinement returned a file map in which one file was overwritten, one
\* retained and one added
C11_Witness ==
    \E c \in DirectIds :
        LET op == direct[c]
            res == op.wt.promise.val
        IN  /\ op.kind = "refine" /\ op.wt.promise.st = "fulfilled"
            /\ op.cf = FilesA
            /\ DOMAIN res = {"index.html", "styles.css", "script.js"}
            /\ res["index.html"] = FilesB["index.html"]
            /\ res["index.html"] # FilesA["index.html"]
            /\ res["styles.css"] = FilesA["styles.css"]
            /\ res["script.js"] = FilesB["script.js"]

\* ------------------------------------------------------------------ C13
\* t is the JSON text of j wrapped in a code fence (opening fence with or
\* without the json tag, and a trailing fence), with or without
\* conversational text, free of braces, before and after
FencedJson(t, j) ==
    \E p \in Prefixes, o \in OpeningFences \ {<<>>},
       c \in ClosingFences \ {<<>>}, x \in Suffixes :
        t = p \o o \o jsonText(j) \o c \o x

\* C13 (ParseSpec): for every response made of a valid JSON file map wrapped
\* in a code fence, optionally preceded or followed by conversational text
\* without braces, sanitization yields exactly the JSON text from its first
\* "{" to its last "}", and parsing returns the file map, unwrapped from a
\* nested files property when there is one.
C13_Sanitization ==
    result # NoResult =>
        \A j \in JsonValues :
            FencedJson(text, j)
                => /\ sanitize(text) = jsonText(j)
                   /\ sanitize(text)
                         = SubSeq(text, indexOf(text, "{"), lastIndexOf(text, "}"))
                   /\ result = Ok(j.map)

\* a file map under files, in a json fence, between two sentences, was
\* returned as the file map
C13_Witness ==
    /\ text = <<"Here is your code:", "<newline>", Fence, "json", "<newline>">>
                \o jsonText(Json(TRUE, FilesB))
                \o <<"<newline>", Fence, "<newline>", "Enjoy!">>
    /\ result = Ok(FilesB)

\* ------------------------------------------------------------------ C12
\* the raw text is a bare markup document: it begins with the markup and
\* has no code fence
BareMarkup(t) == t # <<>> /\ Head(t) \in MarkupStarts /\ indexOf(t, Fence) = 0

\* the raw text is the JSON text of no file map
NotAFileMap(t) == ~JSONparse(t).ok

\* C12 (ParseSpec): for every response whose text cannot be parsed as a file
\* map and whose raw text is a bare markup document (it begins with
\* <!DOCTYPE or <html), with or without braces in the markup, the attempt
\* succeeds with the single-file map of index.html and that raw text; every
\* other unparseable response makes the attempt fail.
C12_BareMarkupRecovery ==
    (result # NoResult /\ NotAFileMap(text)) =>
        IF BareMarkup(text)
        THEN result = Ok("index.html" :> text)
        ELSE (/\ text # <<>>
              /\ \A i \in 1..Len(text) : text[i] \notin MarkupStarts
              /\ ~JSONparse(sanitize(text)).ok) => ~result.ok

\* the same for the markup that has no brace in it
C12_BraceFreeMarkupRecovery ==
    (/\ result # NoResult
     /\ BareMarkup(text)
     /\ indexOf(text, "{") = 0 /\ indexOf(text, "}") = 0)
        => result = Ok("index.html" :> text)

\* ------------------------------------------------------------------ C14
\* C14 (BundleSpec): for every workspace the Bundler returns a document and
\* never throws; for every workspace without an index.html entry, the empty
\* workspace included, the result is the fixed error document.
C14_BundlerTotality ==
    document # NotBundled =>
        /\ ~document.threw
        /\ "index.html" \notin DOMAIN workspace => document.html = ErrorDocument

\* the second half alone: without an entry document, the error document
C14_MissingEntry ==
    (document # NotBundled /\ "index.html" \notin DOMAIN workspace)
        => document = Returns(ErrorDocument)

\* ------------------------------------------------------------------ C15
\* block occurs in html, piece by piece
Contains(html, block) ==
    \E i \in 1..Len(html) :
        /\ i + Len(block) - 1 <= Len(html)
        /\ SubSeq(html, i, i + Len(block) - 1) = block

\* the entry document has no tag that refers to the file
Unreferenced(name) ==
    \A i \in 1..Len(workspace["index.html"]) :
        workspace["index.html"][i] \notin linkRegex(name) \cup scriptRegex(name)

\* C15 (BundleSpec): for every workspace with an entry document, whatever
\* its content, every stylesheet file the entry document does not reference
\* is in the output as an inline style block with its content, just before
\* the head-close marker, and every unreferenced script file as an inline
\* script block just before the body-close marker.
C15_NoAssetDropped ==
    (document # NotBundled /\ ~document.threw /\ "index.html" \in DOMAIN workspace)
        => \A name \in DOMAIN workspace :
              /\ (endsWith(name, ".css") /\ Unreferenced(name))
                    => Contains(document.html,
                          <<"<style>", "/*", name, "*/">> \o workspace[name]
                              \o <<"</style>", "</head>">>)
              /\ (endsWith(name, ".js") /\ Unreferenced(name))
                    => Contains(document.html,
                          <<"<script>", "//", name>> \o workspace[name]
                              \o <<"</script>", "</body>">>)

\* the scenario of the specification: the entry document
\* <head></head><body></body> and a stylesheet nothing refers to
C15_Scenario ==
    (/\ document # NotBundled
     /\ DOMAIN workspace = {"index.html", "styles.css"}
     /\ workspace["index.html"] = <<"<head>", "</head>", "<body>", "</body>">>)
        => document.html =
              <<"<head>", "<style>", "/*", "styles.css", "*/">>
                  \o workspace["styles.css"]
                  \o <<"</style>", "</head>", "<body>", "</body>">>


\* ------------------------------------------------------------ the editor
Called(op1, changed1, op2, changed2) ==
    /\ Len(log) = 2
    /\ log[1] = [op |-> op1, changed |-> changed1]
    /\ log[2] = [op |-> op2, changed |-> changed2]

\* C16: in every reachable state of the open editor, undo() with an empty
\* past and redo() with an empty future leave the live workspace, past,
\* future and SaveStatus unchanged.
C16_EmptyStacksNoOp ==
    creation # 0 =>
        /\ past = <<>> =>
              LET u == handleUndo(Live, now)
              IN  /\ u.files = files /\ u.past = past
                  /\ u.future = future /\ u.saveStatus = saveStatus
        /\ future = <<>> =>
              LET r == handleRedo(Live, now)
              IN  /\ r.files = files /\ r.past = past
                  /\ r.future = future /\ r.saveStatus = saveStatus

\* undo() and then redo() were called on empty stacks, in the editor whose
\* content was saved
C16_Witness ==
    /\ Called("undo", FALSE, "redo", FALSE)
    /\ past = <<>> /\ future = <<>> /\ saveStatus = "saved"

TwoEdits(gap) ==
    LET first == handleFileChange(Live, <<"<h1>x</h1>">>, TRUE, now)
    IN  handleFileChange(first, <<"<h1>y</h1>">>, TRUE, now + gap)

Within == EDIT_WINDOW - Granularity
Beyond == EDIT_WINDOW + Granularity

\* C18 as stated: starting from an empty past, two consecutive edits less
\* than the grouping window apart leave exactly one entry in past, two
\* edits more than the window apart leave exactly two; and an edit pushes
\* a snapshot iff the time since the preceding recorded edit exceeds the
\* window.
PushesIffBeyondWindow ==
    creation # 0 =>
        \A c \in EditContents :
            handleFileChange(Live, c, TRUE, now).past =
                IF now - lastEditTime > EDIT_WINDOW
                THEN capHistory(Append(past, files))
                ELSE past

ScenarioLength == MAX_WAIT + 5 * SAVE_DEBOUNCE

\* a run of edits, each before the debounce armed by the one before
\* expired, has been going on for the length of the scenario
ContinuousEdits ==
    /\ burstStart # 0
    /\ now - burstStart >= ScenarioLength
    /\ now - lastEditTime < SAVE_DEBOUNCE

\* C19: under continuous edits lasting 40 seconds, each arriving before
\* the 2-second debounce expires, at least one flush (SaveStatus becomes
\* saving) happens before the 40 seconds elapse.
C19_BoundedStaleness == ContinuousEdits => burstFlushed

\* C20: SaveStatus becomes saved as a result of a flush only when the
\* persistence call of that flush has completed, and not when it failed or
\* is still pending.
C20_FlushProtocol == flush.savedWhile \in {"none", "ok"}



\* ------------------------------------------------------------------ C25
\* from the selection of task a to its settlement (to the end of the
\* history while it has not settled) every event is a's own
RunsToSettlement(a) ==
    LET last == IF Occurred("settle", a) THEN Index("settle", a) ELSE Len(trace)
    IN  \A i \in SelectedAt(a)..last : trace[i].id = a

\* a HIGH task has no delay; the operation of a NORMAL task starts after
\* its delay has begun and elapsed
DelayByPriority ==
    \A t \in TaskIds :
        /\ tasks[t].priority = "high" => ~Occurred("delay", t)
        /\ (tasks[t].priority = "normal" /\ Occurred("run", t)) =>
              /\ Occurred("delay", t) /\ Index("delay", t) < Index("run", t)
              /\ [pc |-> "delay", task |-> t] \notin loops

\* C25 (QueueSpec): once the worker has selected a NORMAL task, its delay
\* and its operation run to settlement before any other task starts, also
\* when a HIGH task is enqueued during the delay or the operation; HIGH
\* tasks start without a delay, NORMAL tasks after their delay has elapsed.
C25_NonPreemption ==
    /\ \A a \in TaskIds : Selected(a) => RunsToSettlement(a)
    /\ DelayByPriority

\* a HIGH task was enqueued during the delay of NORMAL task 1: the delay
\* goes on, and the HIGH task waits in the queue
C25_Witness ==
    /\ Len(tasks) = 2
    /\ tasks[1].priority = "normal" /\ tasks[2].priority = "high"
    /\ loops = {[pc |-> "delay", task |-> 1]}
    /\ queue = <<2>>
    /\ trace = <<Event("delay", 1)>>


\* ------------------------------------------------ the editor, continued
\* the handler the user called last
LastCall(op) == log # <<>> /\ log[Len(log)].op = op

\* C21: every manual edit leaves future empty, also an edit made within the
\* grouping window of the previous edit and an edit made right after an
\* undo.
C21_RedoInvalidation == LastCall("edit") => future = <<>>

\* C22: immediately after a manual edit past is non-empty (its top snapshot
\* being the workspace before the first edit of the group), so that undo()
\* restores the workspace before the group; also for an edit made shortly
\* after an undo.
C22_EveryEditUndoable == LastCall("edit") => past # <<>>


\* -------------------------------------------------------- the refinement
\* the step in which a refinement ends as out
RefinementEnds(out) == refining.on /\ ~refining'.on /\ refining'.out = out

\* C29: when a refinement request fails, the live workspace, past and
\* future are what they were just before the failure was reported.
C29_FailedRefinementKeepsWorkspace ==
    [][RefinementEnds("failed") =>
          files' = files /\ past' = past /\ future' = future]_vars

\* C30: when a refinement completes successfully the live workspace becomes
\* merge(workspace submitted with the request, service response), whatever
\* edits, undos, redos or flushes came in between, and past and future are
\* kept.
C30_RefinementReplacesWorkspace ==
    [][RefinementEnds("ok") =>
          /\ \E updates \in ServiceMaps : files' = Merge(refining.cf, updates)
          /\ past' = past /\ future' = future]_vars

\* a refinement completed right after an edit made while it was in flight:
\* the edit is in past's snapshot order but not in the live workspace
C30_Witness ==
    /\ Called("edit", TRUE, "refined", TRUE)
    /\ refining.out = "ok" /\ files = refining.val
    /\ files = Merge(FilesA, FilesB)
    /\ past # <<>>

\* C23: neither past nor future contains a snapshot equal to the live
\* workspace, and every push onto past or future happens in the operation
\* that changes the live workspace.
LiveNotInHistory ==
    creation # 0 => files \notin Range(past) \cup Range(future)

PushChangesLive ==
    (Len(past') > Len(past) \/ Len(future') > Len(future)) => files' # files

C23_HistoryInvariant == []LiveNotInHistory /\ [][PushChangesLive]_vars


\* ------------------------------------------------------------------ C24
HistoryBounded ==
    /\ Len(past) <= HISTORY_CAP
    /\ Len(past) + Len(future) <= HISTORY_CAP

\* a push onto a full past: the oldest snapshot goes, the others keep their
\* order, the workspace before the edit comes on top
EvictsOldest ==
    (Len(past) = HISTORY_CAP /\ past' # past /\ Len(past') >= Len(past))
        => past' = Append(Tail(past), files)

\* C24 (LongHistorySpec): after any sequence of edits, undos and redos past
\* holds at most 30 snapshots, and past and future together at most 30;
\* an edit that pushes onto a past of 30 evicts the oldest snapshot and
\* keeps the order of the others.
C24_HistoryBound == []HistoryBounded /\ [][EvictsOldest]_vars

\* the thirty-first edit after a pause pushed onto a full past: the
\* snapshot of the workspace as opened is gone
C24_Witness ==
    /\ LastCall("edit")
    /\ Len(past) = HISTORY_CAP
    /\ past[1] = Snapshot(1) /\ past[HISTORY_CAP] = Snapshot(HISTORY_CAP)
    /\ future = <<>>


\* ------------------------------------------------------------------ C26
\* a flush begins in this step
FlushBegins == flush'.at = now /\ flush' # flush /\ flush'.save = "pending"

\* the debounce timer is the one that flushes in this step
DebounceFlushBegins == FlushBegins /\ timeoutAt = now

\* no debounce flush less than 2 seconds after a mutation
QuietWhileTyping ==
    DebounceFlushBegins => (lastEditTime = 0 \/ now - lastEditTime >= SAVE_DEBOUNCE)

\* a flush hands the persistence the live workspace
FlushCarriesLive == FlushBegins => flush'.files = files

\* half a second past the 2 seconds after the last mutation, the latest
\* flush is the one of 2 seconds after it, with the live workspace
FlushedAfterDebounce ==
    (lastEditTime # 0 /\ now = lastEditTime + SAVE_DEBOUNCE + Granularity)
        => (flush.at = lastEditTime + SAVE_DEBOUNCE /\ flush.files = files)

\* C26 (AutosaveSpec): while mutations arrive less than 2 seconds apart no
\* debounce flush fires; once they stop, a flush with the latest workspace
\* occurs 2 seconds after the last mutation; a flush never persists a
\* workspace older than the live one at the moment of the flush.
C26_AutosaveDebounce ==
    []FlushedAfterDebounce /\ [][QuietWhileTyping /\ FlushCarriesLive]_vars

\* ------------------------------------------------------------------ C27
\* a flush was issued only after a mutation of the workspace
FlushFollowsMutation == flush.at # 0 => lastEditTime # 0

\* no flush hands over again the workspace the flush before it stored
NoFlushOfStoredWorkspace ==
    FlushBegins => ~(flush.save = "ok" /\ flush.files = files)

\* C27 (AutosaveSpec): a flush is issued only in response to a mutation of
\* the workspace; opening a project and the completion of a flush are not
\* mutations and lead to no flush.
C27_AutosaveQuiescence ==
    []FlushFollowsMutation /\ [][NoFlushOfStoredWorkspace]_vars

\* ------------------------------------------------------------------ C28
\* the workspace most recently handed to the persistence, or the workspace
\* as loaded when none was
LastHandedOver == IF flush.at = 0 THEN activeCreationFiles ELSE flush.files

\* C28 (HistorySpec): in every state of the open editor where saveStatus is
\* saved, the live workspace equals the workspace most recently handed to
\* the persistence, or the workspace as loaded.
C28_SavedIsTruthful ==
    (creation # 0 /\ saveStatus = "saved") => files = LastHandedOver

====
